---------------------------- MODULE Spec2Model ----------------------------
(***************************************************************************)
(* Model of the movie pipeline: etl.py (full load), enrich_missing.py      *)
(* (enrichment only), the OMDb response cache, the OMDb client, the        *)
(* response normalizer and the SQLite store they write.                    *)
(*                                                                         *)
(* Representation.  A Python value that may be None is a sequence of       *)
(* length 0 (None) or 1 (the value).  A Python string on which the code    *)
(* does string work (titles, cache keys, error texts, Runtime, Released)   *)
(* is a sequence of one-character strings; a string the code only compares *)
(* or tests for emptiness (imdbID, Director, Plot, BoxOffice, genre names) *)
(* is a TLA+ string.  A dict is a function, an absent key is not in its    *)
(* DOMAIN; an API document is a record whose absent fields are None.       *)
(***************************************************************************)
EXTENDS Integers, Sequences, FiniteSets, TLC

\* Number of rows of movies.csv.
MaxRows == 2
\* Number of processes (full loads and enrichments) started one after another.
MaxRuns == 3
\* Titles of at most MaxTitleLen characters are given to the key function
\* when it is applied on its own.
MaxTitleLen == 3

None == <<>>
Some(v) == <<v>>
IsNone(o) == o = <<>>
Val(o) == o[1]

---------------------------------------------------------------------------
(* Strings *)

Digit == {"0", "1", "2", "3", "4", "5", "6", "7", "8", "9"}
Whitespace == {" "}

DigitVal(c) ==
    CASE c = "0" -> 0 [] c = "1" -> 1 [] c = "2" -> 2 [] c = "3" -> 3
      [] c = "4" -> 4 [] c = "5" -> 5 [] c = "6" -> 6 [] c = "7" -> 7
      [] c = "8" -> 8 [] c = "9" -> 9

DigitChar(n) ==
    CASE n = 0 -> "0" [] n = 1 -> "1" [] n = 2 -> "2" [] n = 3 -> "3"
      [] n = 4 -> "4" [] n = 5 -> "5" [] n = 6 -> "6" [] n = 7 -> "7"
      [] n = 8 -> "8" [] n = 9 -> "9"

\* str.lower() on one character.
LowerChar(c) ==
    CASE c = "A" -> "a" [] c = "B" -> "b" [] c = "C" -> "c" [] c = "D" -> "d"
      [] c = "E" -> "e" [] c = "F" -> "f" [] c = "G" -> "g" [] c = "H" -> "h"
      [] c = "I" -> "i" [] c = "J" -> "j" [] c = "K" -> "k" [] c = "L" -> "l"
      [] c = "M" -> "m" [] c = "N" -> "n" [] c = "O" -> "o" [] c = "P" -> "p"
      [] c = "Q" -> "q" [] c = "R" -> "r" [] c = "S" -> "s" [] c = "T" -> "t"
      [] c = "U" -> "u" [] c = "V" -> "v" [] c = "W" -> "w" [] c = "X" -> "x"
      [] c = "Y" -> "y" [] c = "Z" -> "z"
      [] OTHER -> c

Lower(s) == [i \in 1..Len(s) |-> LowerChar(s[i])]

\* Python's `sub in s` on strings.
Contains(s, sub) ==
    \E i \in 0..(Len(s) - Len(sub)) : SubSeq(s, i + 1, i + Len(sub)) = sub

IsDigits(s) == Len(s) > 0 /\ \A i \in 1..Len(s) : s[i] \in Digit

RECURSIVE ParseNat(_)
ParseNat(s) ==
    IF Len(s) = 0 THEN 0
    ELSE 10 * ParseNat(SubSeq(s, 1, Len(s) - 1)) + DigitVal(s[Len(s)])

RECURSIVE NatStr(_)
NatStr(n) ==
    IF n < 10 THEN <<DigitChar(n)>>
    ELSE NatStr(n \div 10) \o <<DigitChar(n % 10)>>

\* str(year): an int prints its digits, None prints "None".
YearStr(year) ==
    IF IsNone(year) THEN <<"N", "o", "n", "e">>
    ELSE IF Val(year) < 0 THEN <<"-">> \o NatStr(-Val(year))
    ELSE NatStr(Val(year))

RECURSIVE LStrip(_)
LStrip(s) ==
    IF Len(s) > 0 /\ s[1] \in Whitespace THEN LStrip(Tail(s)) ELSE s

RECURSIVE RStrip(_)
RStrip(s) ==
    IF Len(s) > 0 /\ s[Len(s)] \in Whitespace
    THEN RStrip(SubSeq(s, 1, Len(s) - 1)) ELSE s

Strip(s) == LStrip(RStrip(s))

\* str.split(sep) for a one-character separator: the segments between
\* separators, empty ones kept.
RECURSIVE SplitOn(_, _)
SplitOn(s, sep) ==
    IF \A i \in 1..Len(s) : s[i] # sep THEN <<s>>
    ELSE LET i == CHOOSE j \in 1..Len(s) :
                      s[j] = sep /\ \A k \in 1..(j - 1) : s[k] # sep
         IN <<SubSeq(s, 1, i - 1)>> \o SplitOn(SubSeq(s, i + 1, Len(s)), sep)

\* str.split() without argument: the whitespace-separated words, no empty
\* ones.
SplitWords(s) == SelectSeq(SplitOn(s, " "), LAMBDA w : Len(w) > 0)


---------------------------------------------------------------------------
(* Texts of the code and of the API *)

\* "||", the separator of the cache key.
KeySep == <<"|", "|">>
\* "N/A", the API's not-available marker, as a character sequence.
NotAvailable == <<"N", "/", "A">>
\* "min"
MinMarker == <<"m", "i", "n">>
\* "limit", "invalid api key": the markers etl.py looks for.
LimitMarker == <<"l", "i", "m", "i", "t">>
InvalidKeyMarker == <<"i", "n", "v", "a", "l", "i", "d", " ", "a", "p", "i", " ", "k", "e", "y">>
\* "request limit", "limit reached": the markers enrich_missing.py looks for.
RequestLimitMarker == <<"r", "e", "q", "u", "e", "s", "t", " ", "l", "i", "m", "i", "t">>
LimitReachedMarker == <<"l", "i", "m", "i", "t", " ", "r", "e", "a", "c", "h", "e", "d">>
\* "fast-mode or rate-limited: skipped"
SkippedText == <<"f", "a", "s", "t", "-", "m", "o", "d", "e", " ", "o", "r", " ", "r", "a", "t", "e", "-", "l", "i", "m", "i", "t", "e", "d", ":", " ", "s", "k", "i", "p", "p", "e", "d">>
\* "No API key set"
NoKeyText == <<"N", "o", " ", "A", "P", "I", " ", "k", "e", "y", " ", "s", "e", "t">>
\* "Network error: ", "HTTP "
NetworkErrorPrefix == <<"N", "e", "t", "w", "o", "r", "k", " ", "e", "r", "r", "o", "r", ":", " ">>
HttpPrefix == <<"H", "T", "T", "P", " ">>
\* Error texts the API sends.
MovieNotFoundText == <<"M", "o", "v", "i", "e", " ", "n", "o", "t", " ", "f", "o", "u", "n", "d", "!">>
RequestLimitText == <<"R", "e", "q", "u", "e", "s", "t", " ", "l", "i", "m", "i", "t", " ", "r", "e", "a", "c", "h", "e", "d", "!">>
InvalidApiKeyText == <<"I", "n", "v", "a", "l", "i", "d", " ", "A", "P", "I", " ", "k", "e", "y", "!">>
\* str(e) of a requests exception, and of the JSON decoder's error.
TimedOutText == <<"R", "e", "a", "d", " ", "t", "i", "m", "e", "d", " ", "o", "u", "t", ".">>
JsonErrorText == <<"E", "x", "p", "e", "c", "t", "i", "n", "g", " ", "v", "a", "l", "u", "e">>

---------------------------------------------------------------------------
(* API documents *)

Doc(resp, err, imdb, dir, plot, box, rel, run, search) ==
    [Response |-> resp, Error |-> err, imdbID |-> imdb, Director |-> dir,
     Plot |-> plot, BoxOffice |-> box, Released |-> rel, Runtime |-> run,
     Search |-> search]

\* {"Response": "False", "Error": text}
FailDoc(text) ==
    Doc(Some("False"), Some(text), None, None, None, None, None, None, None)

\* {}: the empty document.
EmptyDoc == Doc(None, None, None, None, None, None, None, None, None)

\* Documents the API can answer a title lookup or a detail fetch with.
OkA ==
    Doc(Some("True"), None, Some("tt1"), Some("D1"), Some("N/A"), None,
        Some(<<"0", "1", " ", "J", "a", "n", " ", "1", "9", "9", "5">>),
        Some(<<"1", "4", "2", " ", "m", "i", "n">>), None)
OkC ==
    Doc(Some("True"), None, Some("tt2"), Some("N/A"), Some("P3"), Some("N/A"),
        Some(NotAvailable), Some(NotAvailable), None)
NotFoundDoc == FailDoc(MovieNotFoundText)
RateLimitDoc == FailDoc(RequestLimitText)
\* A search answer with two matches.
SearchHitDoc ==
    Doc(Some("True"), None, None, None, None, None, None, None,
        Some(<<[imdbID |-> Some("tt1")], [imdbID |-> Some("tt2")]>>))

\* What one HTTP request can end in: a JSON document, a requests exception
\* (connection error, timeout), or a body that is not JSON.
Json(d) == [kind |-> "json", doc |-> d, text |-> <<>>, status |-> 0]
Exc(t) == [kind |-> "exc", doc |-> EmptyDoc, text |-> t, status |-> 0]
NonJson(st) == [kind |-> "nonjson", doc |-> EmptyDoc, text |-> <<>>, status |-> st]

LookupOutcomes ==
    {Json(OkA), Json(OkC), Json(NotFoundDoc), Json(RateLimitDoc)}
SearchOutcomes == {Json(SearchHitDoc), Json(NotFoundDoc)}

\* What the three requests of one lookup can end in: <<title lookup,
\* search, fetch by id>>.  A request that is not made has the first
\* outcome of its set: the search is made after a title lookup that did not
\* succeed, the fetch after a search with a match.
NoSearch == Json(NotFoundDoc)
NoFetch == Json(NotFoundDoc)
ApiScripts ==
    {<<o1, NoSearch, NoFetch>> : o1 \in LookupOutcomes}
    \cup {<<o1, Json(SearchHitDoc), o3>> :
             o1 \in LookupOutcomes \ {Json(OkA), Json(OkC)}, o3 \in LookupOutcomes}

---------------------------------------------------------------------------
(* Response cache *)

\* Variant: the key has no separator.
CacheKeyNoSep(title, year) == title \o YearStr(year)

\* key = f"{title}||{year}"
CacheKey(title, year) == title \o KeySep \o YearStr(year)

\* Variant: the assignment is dropped.
PutNothing(cache, key, value) == cache

\* cache[key] = value
Put(cache, key, value) == (key :> value) @@ cache

\* json.dumps of the dict: the members of one JSON object.
Dumps(cache) == {<<k, cache[k]>> : k \in DOMAIN cache}

\* json.loads of the file's text: a dict of the object's members.
Loads(members) ==
    [k \in {m[1] : m \in members} |-> (CHOOSE m \in members : m[1] = k)[2]]

\* load_cache: the file's mapping; {} when the file does not exist (an
\* absent file is the empty set of members).
load_cache(file) == Loads(file)

\* save_cache: the whole file is rewritten.
save_cache(cache) == Dumps(cache)


---------------------------------------------------------------------------
(* External metadata client *)

\* dict.get("Response") == "True"
IsTrue(d) == d.Response = Some("True")

\* (data.get("Error") or "").lower()
ErrLower(d) == IF IsNone(d.Error) THEN <<>> ELSE Lower(Val(d.Error))

\* {"Response": "False", "Error": data.get("Error", ...)}: Error is present
\* whenever a marker was found in it.
RateLimitedDoc(data) ==
    Doc(Some("False"), data.Error, None, None, None, None, None, None, None)

SkippedDoc == FailDoc(SkippedText)
NoKeyDoc == FailDoc(NoKeyText)

\* etl.py's _call: any exception becomes a failure document.
etl_call(o) ==
    CASE o.kind = "json" -> o.doc
      [] o.kind = "exc" -> FailDoc(o.text)
      [] o.kind = "nonjson" -> FailDoc(JsonErrorText)

\* The result of one query_omdb call: the value returned, the cache and
\* the rate-limit flag after it, and the requests and sleeps it made, in
\* order ("t": title lookup, "s": search, "i": fetch by id, "sleep"); the
\* documents the requests gave, in order, and the id the fetch by id asked
\* for (none of either in a call that makes no request).
Result(ret, cache, rl, events) ==
    [ret |-> ret, cache |-> cache, rl |-> rl, events |-> events,
     responses |-> <<>>, fetched |-> None]

\* The result of a call that made requests.
Received(result, responses, fetched) ==
    [result EXCEPT !.responses = responses, !.fetched = fetched]

\* "limit" in err or "invalid api key" in err
etl_is_rate_limit(err) ==
    Contains(err, LimitMarker) \/ Contains(err, InvalidKeyMarker)

\* Variant: a lookup that never finds the key.
cache_get_miss(cache, key) == None

\* `if key in cache: return cache[key]`: the cached value, None on a miss.
cache_get(cache, key) ==
    IF key \in DOMAIN cache THEN Some(cache[key]) ELSE None

\* Variant: only the flag keeps the call from the network.
offline_rl_only(fast, rl) == rl

\* Variant: only --fast keeps the call from the network.
offline_fast_only(fast, rl) == fast

\* `if fast or OMDB_RATE_LIMITED`: the call must not reach the network.
offline(fast, rl) == fast \/ rl

\* Variant: a failed fallback stores and returns the last response received.
etl_search_fallback_last(key, cache, rl, data, o2, o3) ==
    LET search == etl_call(o2)
        hit == IsTrue(search) /\ ~IsNone(search.Search)
                   /\ Len(Val(search.Search)) > 0
        imdb == IF hit THEN Val(search.Search)[1].imdbID ELSE None
        fetch == hit /\ ~IsNone(imdb) /\ Val(imdb) # ""
        detail == etl_call(o3)
    IN IF fetch
       THEN Received(Result(detail, Put(cache, key, detail), rl,
                            <<"t", "s", "i", "sleep">>),
                     <<data, search, detail>>, imdb)
       ELSE Received(Result(search, Put(cache, key, search), rl,
                            <<"t", "s", "sleep">>),
                     <<data, search>>, None)

\* Variant: the fetch by id asks for the last match of the search.
etl_search_fallback_last_match(key, cache, rl, data, o2, o3) ==
    LET search == etl_call(o2)
        hit == IsTrue(search) /\ ~IsNone(search.Search)
                   /\ Len(Val(search.Search)) > 0
        imdb == IF hit THEN Val(search.Search)[Len(Val(search.Search))].imdbID
                ELSE None
        fetch == hit /\ ~IsNone(imdb) /\ Val(imdb) # ""
        detail == etl_call(o3)
    IN IF fetch /\ IsTrue(detail)
       THEN Received(Result(detail, Put(cache, key, detail), rl,
                            <<"t", "s", "i", "sleep">>),
                     <<data, search, detail>>, imdb)
       ELSE IF fetch
       THEN Received(Result(data, Put(cache, key, data), rl,
                            <<"t", "s", "i", "sleep">>),
                     <<data, search, detail>>, imdb)
       ELSE Received(Result(data, Put(cache, key, data), rl,
                            <<"t", "s", "sleep">>),
                     <<data, search>>, None)

\* etl.py query_omdb, from the search fallback on (lines 102-121).
etl_search_fallback(key, cache, rl, data, o2, o3) ==
    LET search == etl_call(o2)
        hit == IsTrue(search) /\ ~IsNone(search.Search)
                   /\ Len(Val(search.Search)) > 0
        imdb == IF hit THEN Val(search.Search)[1].imdbID ELSE None
        fetch == hit /\ ~IsNone(imdb) /\ Val(imdb) # ""
        detail == etl_call(o3)
    IN IF fetch /\ IsTrue(detail)
       THEN Received(Result(detail, Put(cache, key, detail), rl,
                            <<"t", "s", "i", "sleep">>),
                     <<data, search, detail>>, imdb)
       ELSE IF fetch
       THEN Received(Result(data, Put(cache, key, data), rl,
                            <<"t", "s", "i", "sleep">>),
                     <<data, search, detail>>, imdb)
       ELSE Received(Result(data, Put(cache, key, data), rl,
                            <<"t", "s", "sleep">>),
                     <<data, search>>, None)

\* etl.py query_omdb(title, year, cache, fast); rl is OMDB_RATE_LIMITED,
\* apikey says whether OMDB_API_KEY is set, o1, o2, o3 are what the title
\* lookup, the search and the fetch by id end in when they are made.
etl_query_omdb(title, year, cache, fast, rl, apikey, o1, o2, o3) ==
    LET key == CacheKey(title, year)
        data == etl_call(o1)
        err == ErrLower(data)
    IN IF ~IsNone(cache_get(cache, key))
       THEN Result(Val(cache_get(cache, key)), cache, rl, <<>>)
       ELSE IF offline(fast, rl)
       THEN Result(SkippedDoc, Put(cache, key, SkippedDoc), rl, <<>>)
       ELSE IF ~apikey
       THEN Result(NoKeyDoc, Put(cache, key, NoKeyDoc), rl, <<>>)
       ELSE IF IsTrue(data)
       THEN Received(Result(data, Put(cache, key, data), rl, <<"t", "sleep">>),
                     <<data>>, None)
       ELSE IF etl_is_rate_limit(err)
       THEN Received(Result(RateLimitedDoc(data),
                            Put(cache, key, RateLimitedDoc(data)), TRUE, <<"t">>),
                     <<data>>, None)
       ELSE etl_search_fallback(key, cache, rl, data, o2, o3)

\* Variant: a request that fails is taken for a movie found.
enrich_call_found(o) == IF o.kind = "json" THEN o.doc ELSE OkA

\* enrich_missing.py's request: a body that is not JSON becomes
\* "HTTP <status>", a requests exception "Network error: <e>".
enrich_call(o) ==
    CASE o.kind = "json" -> o.doc
      [] o.kind = "exc" -> FailDoc(NetworkErrorPrefix \o o.text)
      [] o.kind = "nonjson" -> FailDoc(HttpPrefix \o NatStr(o.status))

\* "request limit" in err or "limit reached" in err or "invalid api key" in err
enrich_is_rate_limit(err) ==
    \/ Contains(err, RequestLimitMarker)
    \/ Contains(err, LimitReachedMarker)
    \/ Contains(err, InvalidKeyMarker)

\* enrich_missing.py query_omdb(title, year, cache, fast).
enrich_query_omdb(title, year, cache, fast, rl, apikey, o1) ==
    LET key == CacheKey(title, year)
        data == enrich_call(o1)
        err == ErrLower(data)
    IN IF ~IsNone(cache_get(cache, key))
       THEN Result(Val(cache_get(cache, key)), cache, rl, <<>>)
       ELSE IF offline(fast, rl)
       THEN Result(SkippedDoc, Put(cache, key, SkippedDoc), rl, <<>>)
       ELSE IF ~apikey
       THEN Result(NoKeyDoc, Put(cache, key, NoKeyDoc), rl, <<>>)
       ELSE IF enrich_is_rate_limit(err)
       THEN Received(Result(RateLimitedDoc(data),
                            Put(cache, key, RateLimitedDoc(data)), TRUE, <<"t">>),
                     <<data>>, None)
       ELSE Received(Result(data, Put(cache, key, data), rl, <<"t", "sleep">>),
                     <<data>>, None)

---------------------------------------------------------------------------
(* Response normalizer *)

\* int(word): an optional sign, then digits.
PyInt(w) ==
    IF IsDigits(w) THEN Some(ParseNat(w))
    ELSE IF Len(w) > 1 /\ w[1] = "-" /\ IsDigits(Tail(w))
    THEN Some(-ParseNat(Tail(w)))
    ELSE IF Len(w) > 1 /\ w[1] = "+" /\ IsDigits(Tail(w))
    THEN Some(ParseNat(Tail(w)))
    ELSE None

\* Lines 132-137: runtime_minutes from the Runtime text.
parse_runtime(runtime) ==
    IF ~IsNone(runtime) /\ Len(Val(runtime)) > 0
           /\ Contains(Val(runtime), MinMarker)
    THEN PyInt(SplitWords(Val(runtime))[1])
    ELSE None

MonthNames ==
    << <<"j", "a", "n">>,
       <<"f", "e", "b">>,
       <<"m", "a", "r">>,
       <<"a", "p", "r">>,
       <<"m", "a", "y">>,
       <<"j", "u", "n">>,
       <<"j", "u", "l">>,
       <<"a", "u", "g">>,
       <<"s", "e", "p">>,
       <<"o", "c", "t">>,
       <<"n", "o", "v">>,
       <<"d", "e", "c">> >>

IsLeap(y) == (y % 4 = 0 /\ y % 100 # 0) \/ y % 400 = 0

DaysIn(m, y) ==
    IF m = 2 THEN (IF IsLeap(y) THEN 29 ELSE 28)
    ELSE IF m \in {4, 6, 9, 11} THEN 30 ELSE 31

\* A day or month number as strptime reads it: one or two digits.
IsShortNum(w) == IsDigits(w) /\ Len(w) <= 2
IsYear4(w) == IsDigits(w) /\ Len(w) = 4

\* date(y, m, d), None when there is no such date.
MkDate(y, m, d) ==
    IF y >= 1 /\ m \in 1..12 /\ d >= 1 /\ d <= DaysIn(m, y)
    THEN Some([y |-> y, m |-> m, d |-> d]) ELSE None

\* datetime.strptime(s, "%d %b %Y").date()
strptime_dby(s) ==
    LET w == SplitWords(s)
    IN IF Strip(s) = s /\ Len(w) = 3 /\ IsShortNum(w[1]) /\ IsYear4(w[3])
           /\ \E m \in 1..12 : MonthNames[m] = Lower(w[2])
       THEN MkDate(ParseNat(w[3]),
                   CHOOSE m \in 1..12 : MonthNames[m] = Lower(w[2]),
                   ParseNat(w[1]))
       ELSE None

\* datetime.strptime(s, "%Y-%m-%d").date()
strptime_ymd(s) ==
    LET w == SplitOn(s, "-")
    IN IF Len(w) = 3 /\ IsYear4(w[1]) /\ IsShortNum(w[2]) /\ IsShortNum(w[3])
       THEN MkDate(ParseNat(w[1]), ParseNat(w[2]), ParseNat(w[3]))
       ELSE None

Pad(n, width) ==
    LET t == NatStr(n)
    IN [i \in 1..(width - Len(t)) |-> "0"] \o t

\* date.isoformat()
isoformat(dt) == Pad(dt.y, 4) \o <<"-">> \o Pad(dt.m, 2) \o <<"-">> \o Pad(dt.d, 2)

\* Lines 138-145: released_date from the Released text, the two formats
\* tried in order.
parse_released(released) ==
    IF ~IsNone(released) /\ Len(Val(released)) > 0
           /\ Val(released) # NotAvailable
    THEN IF ~IsNone(strptime_dby(Val(released)))
         THEN Some(isoformat(Val(strptime_dby(Val(released)))))
         ELSE IF ~IsNone(strptime_ymd(Val(released)))
         THEN Some(isoformat(Val(strptime_ymd(Val(released)))))
         ELSE None
    ELSE None

\* x if x and x != "N/A" else None
NotNA(x) == IF ~IsNone(x) /\ Val(x) # "" /\ Val(x) # "N/A" THEN x ELSE None

\* clean_omdb_response(r), the same in both scripts: None (absent) or the
\* canonical partial record.
clean_omdb_response(r) ==
    IF r = EmptyDoc \/ r.Response = Some("False") THEN None
    ELSE Some([imdb_id |-> r.imdbID,
               director |-> NotNA(r.Director),
               plot |-> NotNA(r.Plot),
               box_office |-> NotNA(r.BoxOffice),
               released |-> parse_released(r.Released),
               runtime_minutes |-> parse_runtime(r.Runtime)])

\* clean_omdb_response(r) on a document whose Runtime or Released may be a
\* JSON number: num.Runtime, num.Released hold the number when the field is
\* one (r then has no text for it).  A number that is not 0 is true:
\* `"min" in runtime` (line 133, outside the try) raises TypeError on it,
\* and strptime raises TypeError inside the try, which leaves None.
clean_omdb_response_json(r, num) ==
    IF (r = EmptyDoc /\ IsNone(num.Runtime) /\ IsNone(num.Released))
           \/ r.Response = Some("False")
    THEN [raised |-> FALSE, value |-> None]
    ELSE IF ~IsNone(num.Runtime) /\ Val(num.Runtime) # 0
    THEN [raised |-> TRUE, value |-> None]
    ELSE [raised |-> FALSE,
          value |-> Some([imdb_id |-> r.imdbID,
                          director |-> NotNA(r.Director),
                          plot |-> NotNA(r.Plot),
                          box_office |-> NotNA(r.BoxOffice),
                          released |-> IF IsNone(num.Released)
                                       THEN parse_released(r.Released) ELSE None,
                          runtime_minutes |-> IF IsNone(num.Runtime)
                                              THEN parse_runtime(r.Runtime)
                                              ELSE None])]

---------------------------------------------------------------------------
(* Input files *)

\* Title texts of movies.csv: "A (1995)" and "B".
RawTitles == { <<"A", " ", "(", "1", "9", "9", "5", ")">>, <<"B">> }

\* The genres column, as its "|"-separated segments.
GenresOf(raw_title) ==
    IF Len(raw_title) > 1 THEN <<"G1", "G2">> ELSE <<"G1", "(no genres listed)">>

\* movies.csv: row i has movieId i (movie ids are the file's key).
MovieFiles ==
    {[i \in 1..MaxRows |-> [movieId |-> i, title |-> t[i], genres |-> GenresOf(t[i])]] :
        t \in [1..MaxRows -> RawTitles]}

\* ratings.csv: user 1 rates every movie of the catalogue and one movie that
\* is not in it; user 2 rates the last movie; one row repeats (user 1,
\* movie 1) with another rating and no timestamp.
RatingsCsv ==
    [m \in 1..(MaxRows + 1) |->
        [userId |-> 1, movieId |-> m, rating |-> 4, timestamp |-> Some(m)]]
    \o << [userId |-> 2, movieId |-> MaxRows, rating |-> 3, timestamp |-> Some(7)],
          [userId |-> 1, movieId |-> 1, rating |-> 2, timestamp |-> None] >>

\* re.match(r"^(?P<title>.*)\s+\((?P<year>\d{4})\)$", title): the text ends
\* in "(dddd)" after at least one whitespace character; the greedy title
\* group leaves exactly one whitespace character to \s+.
parse_title_and_year(title) ==
    LET n == Len(title)
    IN IF n >= 7 /\ title[n] = ")" /\ title[n - 5] = "("
           /\ IsDigits(SubSeq(title, n - 4, n - 1))
           /\ title[n - 6] \in Whitespace
       THEN [title |-> Strip(SubSeq(title, 1, n - 7)),
             year |-> Some(ParseNat(SubSeq(title, n - 4, n - 1)))]
       ELSE [title |-> title, year |-> None]

\* DataFrame.head(limit) under `if limit:`; limit is None or an int.
df_head(df, limit) ==
    IF IsNone(limit) \/ Val(limit) = 0 THEN df
    ELSE IF Val(limit) > 0
    THEN SubSeq(df, 1, IF Val(limit) < Len(df) THEN Val(limit) ELSE Len(df))
    ELSE SubSeq(df, 1, IF Len(df) + Val(limit) > 0 THEN Len(df) + Val(limit) ELSE 0)

---------------------------------------------------------------------------
(* Store *)

EmptyFcn == [x \in {} |-> x]

\* The store: movies by id, genres in id order (a genre's id is its
\* position), the movie-genre associations, ratings by (user_id, movie_id).
EmptyDb ==
    [movies |-> EmptyFcn, genres |-> <<>>, movie_genres |-> {}, ratings |-> EmptyFcn]

MetaFields ==
    {"imdb_id", "director", "plot", "box_office", "released", "runtime_minutes"}

\* Variant: the incoming value replaces the stored one.
Overwrite(new, old) == new

\* COALESCE(excluded.x, movies.x)
Coalesce(new, old) == IF IsNone(new) THEN old ELSE new

\* Variant: a table without the constraint.
ImdbNeverTaken(movies, id, imdb) == FALSE

\* The schema's UNIQUE constraint on movies.imdb_id: writing imdb on row id
\* fails when another row holds the same non-NULL value.
ImdbTaken(movies, id, imdb) ==
    ~IsNone(imdb) /\ \E j \in DOMAIN movies \ {id} : movies[j].imdb_id = imdb

\* The row the statement's VALUES clause describes.
ValuesRow(p) ==
    [title |-> p.title, year |-> p.year, imdb_id |-> p.imdb_id,
     director |-> p.director, plot |-> p.plot, box_office |-> p.box_office,
     released |-> p.released, runtime_minutes |-> p.runtime]

\* upsert_sql: the row after INSERT ... ON CONFLICT(id) DO UPDATE.
upsert_row(movies, p) ==
    IF p.id \notin DOMAIN movies THEN ValuesRow(p)
    ELSE LET old == movies[p.id]
         IN [title |-> p.title, year |-> p.year,
             imdb_id |-> Coalesce(p.imdb_id, old.imdb_id),
             director |-> Coalesce(p.director, old.director),
             plot |-> Coalesce(p.plot, old.plot),
             box_office |-> Coalesce(p.box_office, old.box_office),
             released |-> Coalesce(p.released, old.released),
             runtime_minutes |-> Coalesce(p.runtime, old.runtime_minutes)]

\* fallback_sql: the same without imdb_id in the SET list.
fallback_row(movies, p) ==
    IF p.id \notin DOMAIN movies THEN ValuesRow(p)
    ELSE LET old == movies[p.id]
         IN [title |-> p.title, year |-> p.year,
             imdb_id |-> old.imdb_id,
             director |-> Coalesce(p.director, old.director),
             plot |-> Coalesce(p.plot, old.plot),
             box_office |-> Coalesce(p.box_office, old.box_office),
             released |-> Coalesce(p.released, old.released),
             runtime_minutes |-> Coalesce(p.runtime, old.runtime_minutes)]

\* Variant: the IntegrityError is not handled.
etl_upsert_no_retry(movies, p) ==
    LET row == upsert_row(movies, p)
    IN IF ~ImdbTaken(movies, p.id, row.imdb_id)
       THEN [raised |-> FALSE, conflict |-> FALSE,
             movies |-> (p.id :> row) @@ movies]
       ELSE [raised |-> TRUE, conflict |-> TRUE, movies |-> movies]

\* Lines 236-257 of etl.py: the upsert, and on the IntegrityError of
\* movies.imdb_id the fallback with imdb_id None.  raised: an exception
\* leaves the try statement.
etl_upsert_movie(movies, p) ==
    LET row == upsert_row(movies, p)
        params_no_imdb == [p EXCEPT !.imdb_id = None]
        retry == fallback_row(movies, params_no_imdb)
    IN IF ~ImdbTaken(movies, p.id, row.imdb_id)
       THEN [raised |-> FALSE, conflict |-> FALSE,
             movies |-> (p.id :> row) @@ movies]
       ELSE IF ~ImdbTaken(movies, p.id, retry.imdb_id)
       THEN [raised |-> FALSE, conflict |-> TRUE,
             movies |-> (p.id :> retry) @@ movies]
       ELSE [raised |-> TRUE, conflict |-> TRUE, movies |-> movies]

\* Position of name in the genres table, 0 when it is not there.
GenreId(genres, name) ==
    IF \E i \in 1..Len(genres) : genres[i] = name
    THEN CHOOSE i \in 1..Len(genres) : genres[i] = name ELSE 0

\* [g for g in str(genres_raw).split("|") if g and g != "(no genres listed)"]
genre_list(genres_raw) ==
    SelectSeq(genres_raw, LAMBDA g : g # "" /\ g # "(no genres listed)")

\* Lines 261-268: INSERT OR IGNORE the genre, read its id, INSERT OR IGNORE
\* the association.
RECURSIVE insert_genres(_, _, _)
insert_genres(d, movie_id, gl) ==
    IF Len(gl) = 0 THEN d
    ELSE LET g == gl[1]
             genres == IF GenreId(d.genres, g) = 0 THEN Append(d.genres, g)
                       ELSE d.genres
             gid == GenreId(genres, g)
             mg == IF gid # 0 THEN d.movie_genres \cup {<<movie_id, gid>>}
                   ELSE d.movie_genres
         IN insert_genres([d EXCEPT !.genres = genres, !.movie_genres = mg],
                          movie_id, Tail(gl))

\* The ratings table's key, under which INSERT OR IGNORE ignores a row.
RatingKey(r) == <<r.userId, r.movieId>>

\* Lines 305-315: INSERT OR IGNORE of the filtered ratings, in file order.
RECURSIVE insert_ratings(_, _)
insert_ratings(ratings, rs) ==
    IF Len(rs) = 0 THEN ratings
    ELSE LET r == rs[1]
             next == IF RatingKey(r) \in DOMAIN ratings THEN ratings
                     ELSE (RatingKey(r) :> [rating |-> r.rating,
                                            timestamp |-> r.timestamp])
                              @@ ratings
         IN insert_ratings(next, Tail(rs))

\* Variant: every id of the ratings file is taken as valid.
all_movie_ids(d, movies_df) == 1..(MaxRows + 1)

\* Lines 284-296: the ids ratings may reference, and the ratings kept.
valid_movie_ids(d, movies_df) ==
    DOMAIN d.movies \cup {movies_df[i].movieId : i \in 1..Len(movies_df)}

ratings_df_filtered(d, movies_df, ratings_df) ==
    SelectSeq(ratings_df, LAMBDA r : r.movieId \in valid_movie_ids(d, movies_df))


---------------------------------------------------------------------------
(* Enrichment-only pipeline: store access *)

DEFAULT_BATCH == 500

\* COUNT(r.rating) of the join: the ratings of movie id.
RatingCount(d, id) == Cardinality({k \in DOMAIN d.ratings : k[2] = id})

\* Rows the WHERE clause and the JOIN of fetch_candidates keep.
Eligible(d) ==
    {id \in DOMAIN d.movies :
        /\ RatingCount(d, id) >= 1
        /\ (IsNone(d.movies[id].director) \/ IsNone(d.movies[id].imdb_id))}

\* fetch_candidates(conn, batch): every result the query can give, most
\* rated first, rows with equal counts in any order, LIMIT batch (a negative
\* LIMIT is no limit).
fetch_candidates(d, batch) ==
    LET n == Cardinality(Eligible(d))
        k == IF batch < 0 \/ batch > n THEN n ELSE batch
        orders == {s \in [1..n -> Eligible(d)] :
                      /\ \A i, j \in 1..n : i # j => s[i] # s[j]
                      /\ \A i, j \in 1..n :
                             i < j => RatingCount(d, s[i]) >= RatingCount(d, s[j])}
    IN {[i \in 1..k |-> [id |-> s[i], title |-> d.movies[s[i]].title,
                         year |-> d.movies[s[i]].year]] : s \in orders}

\* Python truth of an optional string: not None and not empty.
Truthy(x) == ~IsNone(x) /\ Val(x) # ""
TruthyText(x) == ~IsNone(x) /\ Len(Val(x)) > 0

\* The fields of data that update_movie puts in the SET clause.
update_fields(data) ==
    {f \in MetaFields :
        CASE f = "runtime_minutes" -> ~IsNone(data[f])
          [] f = "released" -> TruthyText(data[f])
          [] OTHER -> Truthy(data[f])}

\* update_movie(conn, movie_id, data): UPDATE movies SET ... WHERE id.
\* raised: the statement hit the UNIQUE constraint of imdb_id.
update_movie(movies, movie_id, data) ==
    LET fields == update_fields(data)
        old == movies[movie_id]
        row == [f \in DOMAIN old |-> IF f \in fields THEN data[f] ELSE old[f]]
    IN IF fields = {}
       THEN [raised |-> FALSE, updated |-> FALSE, movies |-> movies]
       ELSE IF "imdb_id" \in fields /\ ImdbTaken(movies, movie_id, row.imdb_id)
       THEN [raised |-> TRUE, updated |-> FALSE, movies |-> movies]
       ELSE [raised |-> FALSE, updated |-> TRUE,
             movies |-> [movies EXCEPT ![movie_id] = row]]

\* Lines 196-212 of enrich_missing.py: the update, and on IntegrityError
\* the update without imdb_id when the record has another field.
enrich_update(movies, movie_id, omdb) ==
    LET first == update_movie(movies, movie_id, omdb)
        data_no_imdb == [omdb EXCEPT !.imdb_id = None]
        second == update_movie(movies, movie_id, data_no_imdb)
    IN IF ~first.raised
       THEN [raised |-> FALSE, conflict |-> FALSE, movies |-> first.movies,
             enriched |-> IF first.updated THEN 1 ELSE 0,
             skipped |-> IF first.updated THEN 0 ELSE 1]
       ELSE IF update_fields(omdb) \ {"imdb_id"} # {}
       THEN [raised |-> second.raised, conflict |-> TRUE,
             movies |-> second.movies, enriched |-> 1, skipped |-> 0]
       ELSE [raised |-> FALSE, conflict |-> TRUE, movies |-> movies,
             enriched |-> 0, skipped |-> 0]

\* Variant: every row is committed when it is written.
commit_each_row(committed, view) == view

\* Variant: the loop never stops early.
never_stop(rl, fast) == FALSE

\* `if OMDB_RATE_LIMITED and not fast: ... break` of enrich_missing.py's
\* candidate loop.
rate_limit_stop(rl, fast) == rl /\ ~fast

\* The transaction of etl.py's movie loop (`with engine.begin() as conn:`
\* around the whole loop): what is committed after one more row.
committed_after_row(committed, view) == committed

---------------------------------------------------------------------------
(* State *)

VARIABLES
    moviesCsv,          \* movies.csv
    OMDB_API_KEY,       \* whether the environment sets a key
    cacheFile,          \* omdb_cache.json: the members of its JSON object
    db,                 \* the store as committed
    pc,                 \* where the script is
    aborted,            \* "no", "killed" (process terminated), "raised"
    lost,               \* the termination lost uncommitted writes
    runKind,            \* "none", "etl", "enrich": the script run last
    prev,               \* Some(rows) when the run before it was a full load
                        \* of that many rows that ended normally
    cache,              \* the in-memory cache dict
    OMDB_RATE_LIMITED,  \* the module's flag
    fast,               \* --fast
    movies_df,          \* movies.csv after the row cap
    candidates,         \* enrich_missing's candidate list
    processed,          \* rows, or candidates, done
    tx,                 \* the store as the open connection sees it
    dbAtStart,          \* the committed store when the script started
    enriched, skipped,  \* enrich_missing's counters
    dropped, inserted,  \* etl's ratings counters
    flushes,            \* save_cache calls of this run
    lastCall,           \* the last query_omdb call of this run
    returned,           \* key -> value query_omdb returned, this run
    lastWrite,          \* the last movie write of this run
    settled,            \* keys looked up in runs that ended normally
    started,            \* number of processes started so far
    arg,                \* the arguments of a function applied on its own
    out                 \* and what it gave

vars ==
    <<moviesCsv, OMDB_API_KEY, cacheFile, db, pc, aborted, lost, runKind, prev,
      cache, OMDB_RATE_LIMITED, fast, movies_df, candidates, processed, tx,
      dbAtStart, enriched, skipped, dropped, inserted, flushes, lastCall,
      returned, lastWrite, settled, started, arg,
      out>>

\* Files and environment: nothing in the scripts writes them.
env == <<moviesCsv, OMDB_API_KEY>>
\* A function applied on its own: the scripts do not touch these.
apart == <<arg, out>>
\* The counters.
counters == <<enriched, skipped, dropped, inserted>>
\* What the actions record of the calls and writes of the process.
memory == <<cache, returned, lastCall, lastWrite>>

\* No script is running.
Stopped == aborted # "no" \/ pc \in {"idle", "done"}

\* --limit values: none, and caps below the file's length.
Limits == {None} \cup {Some(n) : n \in 1..(MaxRows - 1)}
\* --batch values.
Batches == {1, DEFAULT_BATCH}

\* The scripts, the files and the store before the first run.
ProgramInit ==
    /\ moviesCsv \in MovieFiles
    /\ OMDB_API_KEY \in BOOLEAN
    /\ cacheFile = {}
    /\ db = EmptyDb
    /\ pc = "idle"
    /\ aborted = "no"
    /\ lost = FALSE
    /\ runKind = "none"
    /\ prev = None
    /\ cache = EmptyFcn
    /\ OMDB_RATE_LIMITED = FALSE
    /\ fast = FALSE
    /\ movies_df = <<>>
    /\ candidates = <<>>
    /\ processed = 0
    /\ tx = EmptyDb
    /\ dbAtStart = EmptyDb
    /\ enriched = 0 /\ skipped = 0 /\ dropped = 0 /\ inserted = 0
    /\ flushes = 0
    /\ lastCall = None
    /\ returned = EmptyFcn
    /\ lastWrite = None
    /\ settled = {}
    /\ started = 0

Init == ProgramInit /\ arg = None /\ out = None

\* Everything but arg and out.
program ==
    <<moviesCsv, OMDB_API_KEY, cacheFile, db, pc, aborted, lost, runKind, prev,
      cache, OMDB_RATE_LIMITED, fast, movies_df, candidates, processed, tx,
      dbAtStart, enriched, skipped, dropped, inserted, flushes, lastCall,
      returned, lastWrite, settled, started>>

\* A function is about to be applied to one of inputs, no script running.
InitApart(inputs) ==
    /\ ProgramInit
    /\ OMDB_API_KEY
    /\ moviesCsv = CHOOSE f \in MovieFiles : TRUE
    /\ arg \in {Some(i) : i \in inputs}
    /\ out = None

\* A script starts: a new process, its module globals as at import.
StartProcess(kind, f) ==
    /\ Stopped
    /\ started < MaxRuns
    /\ started' = started + 1
    /\ aborted' = "no"
    /\ lost' = FALSE
    /\ runKind' = kind
    /\ prev' = IF runKind = "etl" /\ pc = "done" /\ aborted = "no"
               THEN Some(Len(movies_df)) ELSE None
    /\ cache' = load_cache(cacheFile)
    /\ OMDB_RATE_LIMITED' = FALSE
    /\ fast' = f
    /\ processed' = 0
    /\ tx' = db
    /\ dbAtStart' = db
    /\ enriched' = 0 /\ skipped' = 0 /\ dropped' = 0 /\ inserted' = 0
    /\ flushes' = 0
    /\ lastCall' = None
    /\ returned' = EmptyFcn
    /\ lastWrite' = None
    /\ UNCHANGED <<env, cacheFile, db, settled, apart>>

\* The process is gone, and its memory with it.
MemoryGone(store) ==
    /\ cache' = EmptyFcn
    /\ returned' = EmptyFcn
    /\ lastCall' = None
    /\ lastWrite' = None
    /\ OMDB_RATE_LIMITED' = FALSE
    /\ fast' = FALSE
    /\ candidates' = <<>>
    /\ tx' = store

\* What the actions record of a query_omdb call; kinds: what each request
\* of the call ended in, o being the outcomes of its requests.
CallRecord(key, q, o) ==
    Some([key |-> key, ret |-> q.ret, events |-> q.events,
          responses |-> q.responses, fetched |-> q.fetched,
          kinds |-> [i \in 1..Len(q.responses) |-> o[i].kind],
          cached |-> IF key \in DOMAIN cache THEN Some(cache[key]) ELSE None,
          prior |-> IF key \in DOMAIN returned THEN Some(returned[key]) ELSE None,
          settled |-> key \in settled,
          rl |-> OMDB_RATE_LIMITED, fast |-> fast])

\* The outcomes to consider for a lookup of key: those of the API when the
\* lookup reaches the network, one otherwise.
ScriptsFor(key, scripts) ==
    IF key \in DOMAIN cache \/ fast \/ OMDB_RATE_LIMITED \/ ~OMDB_API_KEY
    THEN {<<NoFetch, NoSearch, NoFetch>>} ELSE scripts

---------------------------------------------------------------------------
(* Full-load pipeline: etl.py main *)

\* Lines 161-189: load the cache and the files, apply the row cap.
StartEtl ==
    \E limit \in Limits, f \in BOOLEAN :
        /\ StartProcess("etl", f)
        /\ movies_df' = df_head(moviesCsv, limit)
        /\ candidates' = <<>>
        /\ pc' = "etl_movies"

\* The statement's parameters for a row (lines 203-234).
upsert_params(movie_id, ty, omdb) ==
    [id |-> movie_id, title |-> ty.title, year |-> ty.year,
     imdb_id |-> IF IsNone(omdb) THEN None ELSE Val(omdb).imdb_id,
     director |-> IF IsNone(omdb) THEN None ELSE Val(omdb).director,
     plot |-> IF IsNone(omdb) THEN None ELSE Val(omdb).plot,
     box_office |-> IF IsNone(omdb) THEN None ELSE Val(omdb).box_office,
     released |-> IF IsNone(omdb) THEN None ELSE Val(omdb).released,
     runtime |-> IF IsNone(omdb) THEN None ELSE Val(omdb).runtime_minutes]

\* One iteration of the movie loop (lines 193-273): look the title up,
\* normalize, upsert, insert the genres.  scripts: what the API can answer.
EtlMovieRowOn(scripts) ==
    /\ UNCHANGED <<started, apart>>
    /\ pc = "etl_movies" /\ aborted = "no"
    /\ processed < Len(movies_df)
    /\ LET row == movies_df[processed + 1]
           ty == parse_title_and_year(row.title)
           key == CacheKey(ty.title, ty.year)
       IN \E o \in ScriptsFor(key, scripts) :
           LET q == etl_query_omdb(ty.title, ty.year, cache, fast,
                                   OMDB_RATE_LIMITED, OMDB_API_KEY,
                                   o[1], o[2], o[3])
               omdb == clean_omdb_response(q.ret)
               w == etl_upsert_movie(tx.movies,
                                     upsert_params(row.movieId, ty, omdb))
               view == insert_genres([tx EXCEPT !.movies = w.movies],
                                     row.movieId, genre_list(row.genres))
           IN /\ cache' = q.cache
              /\ OMDB_RATE_LIMITED' = q.rl
              /\ lastCall' = CallRecord(key, q, o)
              /\ returned' = Put(returned, key, q.ret)
              /\ lastWrite' = Some([id |-> row.movieId, omdb |-> omdb,
                                    conflict |-> w.conflict,
                                    before |-> tx.movies])
              /\ processed' = processed + 1
              /\ IF w.raised
                 THEN /\ aborted' = "raised"
                      /\ UNCHANGED <<tx, db>>
                 ELSE /\ aborted' = "no"
                      /\ tx' = view
                      /\ db' = committed_after_row(db, view)
    /\ UNCHANGED <<env, cacheFile, pc, lost, runKind, prev, fast, movies_df,
                   candidates, dbAtStart, counters, flushes, settled>>

EtlMovieRow == EtlMovieRowOn(ApiScripts)

\* The loop is over: the `with engine.begin()` block of line 190 commits.
EtlCommitMovies ==
    /\ UNCHANGED <<started, apart>>
    /\ pc = "etl_movies" /\ aborted = "no"
    /\ processed = Len(movies_df)
    /\ db' = tx
    /\ pc' = "etl_save"
    /\ UNCHANGED <<env, cacheFile, aborted, lost, runKind, prev, memory,
                   OMDB_RATE_LIMITED, fast, movies_df, candidates, processed,
                   tx, dbAtStart, counters, flushes, settled>>

\* Line 275: save_cache(cache, OMDB_CACHE_FILE).
EtlSaveCache ==
    /\ UNCHANGED <<started, apart>>
    /\ pc = "etl_save" /\ aborted = "no"
    /\ cacheFile' = save_cache(cache)
    /\ flushes' = flushes + 1
    /\ pc' = "etl_ratings"
    /\ UNCHANGED <<env, db, aborted, lost, runKind, prev, memory,
                   OMDB_RATE_LIMITED, fast, movies_df, candidates, processed,
                   tx, dbAtStart, counters, settled>>

\* Lines 284-322: filter the ratings, insert them in one transaction; the
\* script ends.
EtlRatings ==
    /\ UNCHANGED <<started, apart>>
    /\ pc = "etl_ratings" /\ aborted = "no"
    /\ LET kept == ratings_df_filtered(db, movies_df, RatingsCsv)
           after == [db EXCEPT !.ratings = insert_ratings(db.ratings, kept)]
       IN /\ dropped' = Len(RatingsCsv) - Len(kept)
          /\ inserted' = Len(kept)
          /\ db' = after
          /\ MemoryGone(after)
    /\ pc' = "done"
    /\ settled' = settled \cup DOMAIN returned
    /\ UNCHANGED <<env, cacheFile, aborted, lost, runKind, prev, movies_df,
                   processed, dbAtStart, enriched, skipped, flushes>>

---------------------------------------------------------------------------
(* Enrichment-only pipeline: enrich_missing.py main *)

\* Lines 169-184: load the cache, select the candidates; with none, return.
StartEnrich ==
    \E batch \in Batches, f \in BOOLEAN :
        \E cands \in fetch_candidates(db, batch) :
            /\ StartProcess("enrich", f)
            /\ movies_df' = <<>>
            /\ candidates' = cands
            /\ pc' = IF Len(cands) = 0 THEN "done" ELSE "enrich_loop"

\* One iteration of the candidate loop that gets past the rate-limit test
\* (lines 185-214).  A record without data is skipped by `continue`, which
\* also passes over save_cache.  scripts: what the API can answer.
EnrichStepOn(scripts) ==
    /\ UNCHANGED <<started, apart>>
    /\ pc = "enrich_loop" /\ aborted = "no"
    /\ processed < Len(candidates)
    /\ ~rate_limit_stop(OMDB_RATE_LIMITED, fast)
    /\ LET c == candidates[processed + 1]
           key == CacheKey(c.title, c.year)
       IN \E o \in ScriptsFor(key, scripts) :
           LET q == enrich_query_omdb(c.title, c.year, cache, fast,
                                      OMDB_RATE_LIMITED, OMDB_API_KEY, o[1])
               omdb == clean_omdb_response(q.ret)
               u == enrich_update(db.movies, c.id, Val(omdb))
           IN /\ cache' = q.cache
              /\ OMDB_RATE_LIMITED' = q.rl
              /\ lastCall' = CallRecord(key, q, o)
              /\ returned' = Put(returned, key, q.ret)
              /\ processed' = processed + 1
              /\ IF IsNone(omdb)
                 THEN /\ skipped' = skipped + 1
                      /\ lastWrite' = None
                      /\ UNCHANGED <<db, tx, enriched, cacheFile, flushes,
                                     aborted>>
                 ELSE /\ lastWrite' = Some([id |-> c.id, omdb |-> omdb,
                                            conflict |-> u.conflict,
                                            before |-> db.movies])
                      /\ aborted' = IF u.raised THEN "raised" ELSE "no"
                      /\ db' = [db EXCEPT !.movies = u.movies]
                      /\ tx' = [db EXCEPT !.movies = u.movies]
                      /\ enriched' = enriched + u.enriched
                      /\ skipped' = skipped + u.skipped
                      /\ cacheFile' = IF u.raised THEN cacheFile
                                      ELSE save_cache(q.cache)
                      /\ flushes' = IF u.raised THEN flushes ELSE flushes + 1
    /\ UNCHANGED <<env, pc, lost, runKind, prev, fast, movies_df, candidates,
                   dbAtStart, dropped, inserted, settled>>

EnrichStep == EnrichStepOn(ApiScripts)

\* The loop ends, by exhaustion or by the break of lines 186-188; lines
\* 215-217 close the connection and save the cache; the script ends.
EnrichFinish ==
    /\ UNCHANGED <<started, apart>>
    /\ pc = "enrich_loop" /\ aborted = "no"
    /\ processed = Len(candidates) \/ rate_limit_stop(OMDB_RATE_LIMITED, fast)
    /\ cacheFile' = save_cache(cache)
    /\ flushes' = flushes + 1
    /\ pc' = "done"
    /\ settled' = settled \cup DOMAIN returned
    /\ MemoryGone(db)
    /\ UNCHANGED <<env, db, aborted, lost, runKind, prev, movies_df, processed,
                   dbAtStart, counters>>

\* The process is terminated while a script runs: what was not committed
\* is lost with the connection, the cache file stays as last written.
Kill ==
    /\ UNCHANGED <<started, apart>>
    /\ ~Stopped
    /\ aborted' = "killed"
    /\ lost' = (tx # db)
    /\ MemoryGone(db)
    /\ movies_df' = <<>>
    /\ processed' = 0
    /\ enriched' = 0 /\ skipped' = 0 /\ dropped' = 0 /\ inserted' = 0
    /\ flushes' = 0
    /\ UNCHANGED <<env, cacheFile, db, pc, runKind, prev, dbAtStart, settled>>

Next ==
    \/ StartEtl
    \/ EtlMovieRow
    \/ EtlCommitMovies
    \/ EtlSaveCache
    \/ EtlRatings
    \/ StartEnrich
    \/ EnrichStep
    \/ EnrichFinish
    \/ Kill

Spec == Init /\ [][Next]_vars

\* The document's error text carries a rate-limit or invalid-key marker of
\* either client.
CarriesMarker(d) ==
    etl_is_rate_limit(ErrLower(d)) \/ enrich_is_rate_limit(ErrLower(d))

\* The call recorded in c received a response that carries a marker.
MarkerReceived(c) ==
    \E i \in DOMAIN c.responses : CarriesMarker(c.responses[i])

\* C14: after a call that received a response carrying a rate-limit or
\* invalid-key text, to the title lookup, the search or the fetch by id,
\* the flag is set, and the next call of the run makes no request.
C14_AnyResponse ==
    /\ []((~IsNone(lastCall) /\ MarkerReceived(Val(lastCall)))
             => OMDB_RATE_LIMITED)
    /\ [][(/\ ~IsNone(lastCall) /\ MarkerReceived(Val(lastCall))
           /\ ~IsNone(lastCall') /\ processed' # processed)
              => Val(lastCall').events = <<>>]_vars

\* The last call made requests and ended in failure without setting the
\* flag: a terminal failure.
TerminalFailure ==
    /\ ~IsNone(lastCall)
    /\ Val(lastCall).responses # <<>>
    /\ ~IsTrue(Val(lastCall).ret)
    /\ ~OMDB_RATE_LIMITED

\* C15 as stated: on a terminal failure query_omdb caches and returns the
\* response of the last request it made for the key.
C15_LastResponse ==
    TerminalFailure =>
        LET c == Val(lastCall)
        IN /\ c.ret = c.responses[Len(c.responses)]
           /\ cache[c.key] = c.responses[Len(c.responses)]

\* C15: on a terminal failure query_omdb caches and returns the failure
\* response of the title lookup, the first request it made for the key.
C15_OriginalFailure ==
    TerminalFailure =>
        LET c == Val(lastCall)
        IN /\ c.ret = c.responses[1]
           /\ c.key \in DOMAIN cache
           /\ cache[c.key] = c.responses[1]

\* A terminal failure after a fetch by id whose answer is another failure
\* than the title lookup's.
C15_Witness ==
    /\ TerminalFailure
    /\ Len(Val(lastCall).responses) = 3
    /\ Val(lastCall).responses[3] # Val(lastCall).responses[1]
    /\ Val(lastCall).events = <<"t", "s", "i", "sleep">>

\* The requests among the events of a call, in order.
IsRequest(e) == e # "sleep"
Requests(events) == SelectSeq(events, IsRequest)

\* C16: the requests of a call are a prefix of title lookup, search, fetch
\* by id; the search follows a title lookup that failed without a marker;
\* the fetch follows a search with a match and asks for the first match's
\* id; a fetch that succeeds is what is cached and returned.  A call of
\* enrich_missing.py makes at most one request, the title lookup.
C16_Protocol ==
    ~IsNone(lastCall) =>
        LET c == Val(lastCall)
            reqs == Requests(c.events)
            resp == c.responses
        IN /\ reqs \in {<<>>, <<"t">>, <<"t", "s">>, <<"t", "s", "i">>}
           /\ Len(resp) = Len(reqs)
           /\ Len(reqs) >= 2 => ~IsTrue(resp[1]) /\ ~CarriesMarker(resp[1])
           /\ Len(reqs) = 3 =>
                  /\ IsTrue(resp[2])
                  /\ ~IsNone(resp[2].Search)
                  /\ Len(Val(resp[2].Search)) >= 1
                  /\ c.fetched = Val(resp[2].Search)[1].imdbID
           /\ Len(reqs) < 3 => IsNone(c.fetched)
           /\ (Len(reqs) = 3 /\ IsTrue(resp[3])) =>
                  (c.ret = resp[3] /\ cache[c.key] = resp[3])
           /\ runKind = "enrich" => Len(reqs) <= 1

\* A call of etl.py that fetched the first of two matches, with success.
C16_Witness ==
    /\ ~IsNone(lastCall)
    /\ runKind = "etl"
    /\ Val(lastCall).events = <<"t", "s", "i", "sleep">>
    /\ Len(Val(Val(lastCall).responses[2].Search)) = 2
    /\ Val(lastCall).fetched = Some("tt1")
    /\ IsTrue(Val(lastCall).responses[3])
    /\ Val(lastCall).ret = Val(lastCall).responses[3]

\* enrich_missing.py is in its loop with the flag set, without --fast.
EnrichFlagged ==
    /\ pc = "enrich_loop" /\ aborted = "no"
    /\ OMDB_RATE_LIMITED /\ ~fast

\* C17: once the flag is set in enrich_missing.py without --fast, no
\* further candidate is looked up, normalized or updated: unless the
\* process is terminated, the next step leaves the loop, saves the cache
\* and ends the run.
C17_StopsOnFlag ==
    [][EnrichFlagged =>
          /\ db' = db
          /\ lastCall' \in {lastCall, None}
          /\ lastWrite' \in {lastWrite, None}
          /\ \/ aborted' = "killed"
             \/ /\ pc' = "done"
                /\ processed' = processed
                /\ skipped' = skipped /\ enriched' = enriched
                /\ cacheFile' = save_cache(cache)]_vars

\* The lookup of a candidate has just set the flag, and candidates remain.
C17_Witness ==
    /\ EnrichFlagged
    /\ processed < Len(candidates)
    /\ ~IsNone(lastCall)
    /\ ~Val(lastCall).rl
    /\ Val(lastCall).events = <<"t">>
    /\ cacheFile # save_cache(cache)

\* C19: time.sleep(SLEEP_BETWEEN_CALLS) runs between any two consecutive
\* requests of a run: no request of a call directly follows another; a call
\* that ends in a request without the sleep sets the flag, and under the
\* flag the next call of the run makes no request.
C19_Throttled ==
    /\ [](~IsNone(lastCall) =>
            LET ev == Val(lastCall).events
            IN /\ \A i \in 1..(Len(ev) - 1) :
                     ~(IsRequest(ev[i]) /\ IsRequest(ev[i + 1]))
               /\ (ev # <<>> /\ IsRequest(ev[Len(ev)])) => OMDB_RATE_LIMITED)
    /\ [][(OMDB_RATE_LIMITED /\ ~IsNone(lastCall') /\ processed' # processed)
              => Val(lastCall').events = <<>>]_vars

---------------------------------------------------------------------------
(* The scripts against an API whose requests fail *)

\* r.status_code of an answer whose body is not JSON.
BadGateway == 502

\* A request that times out, and one answered by a body that is not JSON.
FaultOutcomes == {Exc(TimedOutText), NonJson(BadGateway)}

\* Lookups in which a request fails: the title lookup, the search after a
\* title not found, the fetch by id after a search with matches; and
\* lookups in which none does.
FaultScripts ==
    {<<o, NoSearch, NoFetch>> : o \in FaultOutcomes \cup {Json(OkA)}}
    \cup {<<o, Json(SearchHitDoc), Json(OkC)>> : o \in FaultOutcomes}
    \cup {<<Json(NotFoundDoc), o, NoFetch>> : o \in FaultOutcomes}
    \cup {<<Json(NotFoundDoc), Json(SearchHitDoc), o>> : o \in FaultOutcomes}

FaultEtlMovieRow == EtlMovieRowOn(FaultScripts)
FaultEnrichStep == EnrichStepOn(FaultScripts)

NextFaults ==
    \/ StartEtl
    \/ FaultEtlMovieRow
    \/ EtlCommitMovies
    \/ EtlSaveCache
    \/ EtlRatings
    \/ StartEnrich
    \/ FaultEnrichStep
    \/ EnrichFinish
    \/ Kill

SpecFaults == Init /\ [][NextFaults]_vars

\* A request of the call recorded in c failed.
FaultCall(c) == \E i \in DOMAIN c.kinds : c.kinds[i] # "json"

---------------------------------------------------------------------------
(* The scripts against an API that knows some movies by their id only *)

\* A movie found of which the API holds the id and nothing else.
OkIdOnly ==
    Doc(Some("True"), None, Some("tt1"), Some("N/A"), Some("N/A"), Some("N/A"),
        Some(NotAvailable), Some(NotAvailable), None)

\* Lookups answered by the title lookup: a movie with fields, the movie
\* with the same id and no field, no movie.
CounterScripts ==
    {<<Json(d), NoSearch, NoFetch>> : d \in {OkA, OkIdOnly}}
    \cup {<<Json(NotFoundDoc), Json(NotFoundDoc), NoFetch>>}

CounterEtlMovieRow == EtlMovieRowOn(CounterScripts)
CounterEnrichStep == EnrichStepOn(CounterScripts)

NextCounters ==
    \/ StartEtl
    \/ CounterEtlMovieRow
    \/ EtlCommitMovies
    \/ EtlSaveCache
    \/ EtlRatings
    \/ StartEnrich
    \/ CounterEnrichStep
    \/ EnrichFinish
    \/ Kill

SpecCounters == Init /\ [][NextCounters]_vars

\* enrich_missing.main has ended by its last line.
EnrichDone == runKind = "enrich" /\ pc = "done" /\ aborted = "no"

\* C22: when enrich_missing.main ends, enriched + skipped is the number of
\* candidates whose iteration ran a lookup.
C22_Accounting == EnrichDone => enriched + skipped = processed

---------------------------------------------------------------------------
(* The normalizer applied to a document *)

\* Texts of the Released and Runtime fields.
ReleasedTexts ==
    { NotAvailable,
      <<"0", "1", " ", "J", "a", "n", " ", "1", "9", "9", "5">>,
      <<"1", "9", "9", "5", "-", "0", "1", "-", "0", "1">>,
      <<"3", "1", " ", "F", "e", "b", " ", "1", "9", "9", "5">> }
RuntimeTexts ==
    { NotAvailable,
      <<"1", "4", "2", " ", "m", "i", "n">>,
      <<"m", "i", "n", " ", "1", "4", "2">>,
      <<"1", "h", " ", "3", "0", " ", "m", "i", "n">>,
      <<"2", " ", "h", " ", "2", "2", " ", "m", "i", "n">> }

\* Documents: well-formed ones, ones with missing fields, with the "N/A"
\* marker, failure documents, the empty document.
CleanDocs ==
    {EmptyDoc}
    \cup {Doc(resp, None, imdb, dir, Some("P3"), box, rel, run, None) :
             resp \in {None, Some("True"), Some("False")},
             imdb \in {None, Some("tt1"), Some("N/A")},
             dir \in {None, Some("D1"), Some("N/A")},
             box \in {None, Some("N/A")},
             rel \in {None} \cup {Some(t) : t \in ReleasedTexts},
             run \in {None} \cup {Some(t) : t \in RuntimeTexts}}

\* The fields that hold a JSON number: none, Runtime, Runtime and Released.
NoNumbers == [Runtime |-> None, Released |-> None]
NumberFields ==
    { NoNumbers,
      [Runtime |-> Some(142), Released |-> None],
      [Runtime |-> Some(0), Released |-> Some(1995)] }

\* A document with a number in a field has no text in it.
CleanInputs ==
    {[r |-> r, num |-> NoNumbers] : r \in CleanDocs}
    \cup {[r |-> [r EXCEPT !.Runtime = None], num |-> n] :
             r \in {d \in CleanDocs : IsNone(d.Released)},
             n \in NumberFields \ {NoNumbers}}

InitClean == InitApart(CleanInputs)

\* clean_omdb_response(r) is called.
ApplyClean ==
    /\ ~IsNone(arg) /\ IsNone(out)
    /\ out' = Some(clean_omdb_response_json(Val(arg).r, Val(arg).num))
    /\ UNCHANGED <<program, arg>>

NextClean == ApplyClean

SpecClean == InitClean /\ [][NextClean]_vars

---------------------------------------------------------------------------
(* The cache key of two (title, year) pairs *)

\* Titles over a letter, a digit and the separator's character; years
\* absent, of one digit, of two digits.
KeyAlphabet == {"a", "1", "|"}
KeyTitles == UNION {[1..n -> KeyAlphabet] : n \in 0..MaxTitleLen}
KeyYears == {None, Some(1), Some(11)}
KeyInputs ==
    {[t1 |-> t1, y1 |-> y1, t2 |-> t2, y2 |-> y2] :
        t1 \in KeyTitles, y1 \in KeyYears, t2 \in KeyTitles, y2 \in KeyYears}

InitKey == InitApart(KeyInputs)

\* The response of the first pair is cached under its key, then the second
\* pair is looked up: k1, k2 are the keys, hit what the lookup finds.
ApplyKey ==
    /\ ~IsNone(arg) /\ IsNone(out)
    /\ LET a == Val(arg)
           k1 == CacheKey(a.t1, a.y1)
           k2 == CacheKey(a.t2, a.y2)
       IN out' = Some([k1 |-> k1, k2 |-> k2,
                       hit |-> cache_get(Put(load_cache({}), k1, OkA), k2)])
    /\ UNCHANGED <<program, arg>>

NextKey == ApplyKey

SpecKey == InitKey /\ [][NextKey]_vars

\* The two pairs given to the key function differ.
DistinctPairs == Val(arg).t1 # Val(arg).t2 \/ Val(arg).y1 # Val(arg).y2

\* C20: two distinct (title, year) pairs have distinct cache keys, and the
\* lookup of one does not find what was cached for the other.
C20_Injective ==
    (~IsNone(out) /\ DistinctPairs) =>
        (Val(out).k1 # Val(out).k2 /\ IsNone(Val(out).hit))

\* Two pairs whose titles and years put together read the same: "a1" of
\* year 1 and "a" of year 11; and a title that ends in the separator.
C20_Witness ==
    /\ ~IsNone(out)
    /\ \/ /\ Val(arg).t1 = <<"a", "1">> /\ Val(arg).y1 = Some(1)
          /\ Val(arg).t2 = <<"a">> /\ Val(arg).y2 = Some(11)
       \/ /\ Val(arg).t1 = <<"a", "|", "|">> /\ Val(arg).y1 = None
          /\ Val(arg).t2 = <<"a">> /\ Val(arg).y2 = None
    /\ Val(out).k1 # Val(out).k2

\* The text is "<N> min": digits, one space, "min".
IsMinutesForm(t) ==
    /\ Len(t) > 4
    /\ IsDigits(SubSeq(t, 1, Len(t) - 4))
    /\ SubSeq(t, Len(t) - 3, Len(t)) = <<" ">> \o MinMarker

\* C21: the runtime of the record is N for a Runtime text "<N> min", and
\* absent for an absent Runtime, "N/A" and any other text.
C21_RuntimeForm ==
    (~IsNone(out) /\ Val(arg).num = NoNumbers /\ ~IsNone(Val(out).value)) =>
        LET runtime == Val(arg).r.Runtime
            minutes == Val(Val(out).value).runtime_minutes
        IN /\ ~Val(out).raised
           /\ minutes =
                  IF ~IsNone(runtime) /\ IsMinutesForm(Val(runtime))
                  THEN Some(ParseNat(SubSeq(Val(runtime), 1, Len(Val(runtime)) - 4)))
                  ELSE None

\* C12: clean_omdb_response returns a record or None for every document,
\* and never raises.
C12_Total == ~IsNone(out) => ~Val(out).raised

\* C13: a field of the document that holds "N/A" is None in the record, so
\* no field of the record holds "N/A".
C13_Sentinel ==
    (~IsNone(out) /\ ~IsNone(Val(out).value)) =>
        LET r == Val(arg).r
            rec == Val(Val(out).value)
        IN /\ r.imdbID = Some("N/A") => IsNone(rec.imdb_id)
           /\ r.Director = Some("N/A") => IsNone(rec.director)
           /\ r.Plot = Some("N/A") => IsNone(rec.plot)
           /\ r.BoxOffice = Some("N/A") => IsNone(rec.box_office)
           /\ r.Released = Some(NotAvailable) => IsNone(rec.released)
           /\ r.Runtime = Some(NotAvailable) => IsNone(rec.runtime_minutes)

---------------------------------------------------------------------------
(* Properties of the metadata client and its cache *)

\* C1: when query_omdb is called for a key it has already returned for in
\* this process (same cache dict), it returns the value it returned before
\* and makes no request, whatever fast and OMDB_RATE_LIMITED are.
C1_CacheHit ==
    (~IsNone(lastCall) /\ ~IsNone(Val(lastCall).prior)) =>
        /\ Val(lastCall).ret = Val(Val(lastCall).prior)
        /\ Val(lastCall).events = <<>>

\* A repeated key looked up while the rate-limit flag is set and --fast is
\* not given.
C1_Witness ==
    /\ ~IsNone(lastCall)
    /\ ~IsNone(Val(lastCall).prior)
    /\ Val(lastCall).rl
    /\ ~Val(lastCall).fast

\* C2 as stated: every query_omdb call made while the rate-limit flag is
\* set returns the "skipped" document and makes no request.
C2_AlwaysSkipped ==
    (~IsNone(lastCall) /\ Val(lastCall).rl) =>
        /\ Val(lastCall).ret = SkippedDoc
        /\ Val(lastCall).events = <<>>

\* What a call made under the flag returns: the cached value of a cached
\* key, the "skipped" document otherwise; and it makes no request.
C2_UnderFlag ==
    (~IsNone(lastCall) /\ Val(lastCall).rl) =>
        /\ Val(lastCall).events = <<>>
        /\ Val(lastCall).ret = IF IsNone(Val(lastCall).cached) THEN SkippedDoc
                               ELSE Val(Val(lastCall).cached)

\* While the process runs, a step never clears the flag.
C2_FlagKept == (OMDB_RATE_LIMITED /\ ~Stopped') => OMDB_RATE_LIMITED'

\* C2, amended: once OMDB_RATE_LIMITED is set, no query_omdb call of the
\* process makes a request; a call for a key that is not cached returns the
\* "skipped" document, a call for a cached key returns the cached value;
\* the flag stays set until the process ends.
C2_Degrade == []C2_UnderFlag /\ [][C2_FlagKept]_vars

\* A call for a key that is not cached, made under the flag without --fast.
C2_Witness ==
    /\ ~IsNone(lastCall)
    /\ Val(lastCall).rl
    /\ ~Val(lastCall).fast
    /\ IsNone(Val(lastCall).cached)
    /\ Val(lastCall).ret = SkippedDoc

\* C3: what query_omdb returns is in the cache under the call's key when it
\* returns; and a key looked up in an earlier process that ended normally
\* is answered without a request.
C3_OutcomeCached ==
    ~IsNone(lastCall) =>
        /\ Val(lastCall).key \in DOMAIN cache
        /\ cache[Val(lastCall).key] = Val(lastCall).ret
        /\ Val(lastCall).settled => Val(lastCall).events = <<>>

\* A key of an earlier process looked up again with a key set, without
\* --fast and without the flag: only the cache keeps it from the network.
C3_Witness ==
    /\ ~IsNone(lastCall)
    /\ Val(lastCall).settled
    /\ ~Val(lastCall).fast
    /\ ~Val(lastCall).rl
    /\ OMDB_API_KEY
    /\ Val(lastCall).events = <<>>

---------------------------------------------------------------------------
(* Properties of the cache file *)

\* C4: in enrich_missing.main the cache file equals the cache dict after
\* every iteration of the candidate loop, whatever the iteration did; in
\* etl.main save_cache has run once when the movie phase is over and not
\* before.
C4_FlushPerRecord ==
    /\ (runKind = "enrich" /\ pc = "enrich_loop" /\ aborted = "no"
            /\ processed > 0) => cacheFile = save_cache(cache)
    /\ (runKind = "etl" /\ aborted = "no") =>
            flushes = IF pc \in {"etl_movies", "etl_save"} THEN 0 ELSE 1

---------------------------------------------------------------------------
(* Properties of the store *)

NoSharedImdb(movies) ==
    \A i, j \in DOMAIN movies :
        (i # j /\ ~IsNone(movies[i].imdb_id)) =>
            movies[i].imdb_id # movies[j].imdb_id

\* C5: no two movie rows hold the same non-NULL imdb_id, in the committed
\* store and in the store as the open connection sees it.
C5_UniqueImdb == NoSharedImdb(db.movies) /\ NoSharedImdb(tx.movies)

\* etl.main has just written a second row whose title resolved to the
\* imdb_id of another row.
C5_Witness ==
    /\ runKind = "etl"
    /\ ~IsNone(lastWrite)
    /\ Val(lastWrite).conflict
    /\ Cardinality(DOMAIN tx.movies) >= 2

\* C6: when a write hits the imdb_id of another row, no exception leaves
\* the script; the row has every other field the record holds, its imdb_id
\* is what it was (NULL for a new row), and the other rows are as before.
C6_Retry ==
    (~IsNone(lastWrite) /\ Val(lastWrite).conflict) =>
        LET id == Val(lastWrite).id
            rec == Val(Val(lastWrite).omdb)
            before == Val(lastWrite).before
        IN /\ aborted # "raised"
           /\ DOMAIN tx.movies = DOMAIN before \cup {id}
           /\ \A f \in MetaFields \ {"imdb_id"} :
                  ~IsNone(rec[f]) => tx.movies[id][f] = rec[f]
           /\ tx.movies[id].imdb_id =
                  IF id \in DOMAIN before THEN before[id].imdb_id ELSE None
           /\ \A j \in DOMAIN before \ {id} : tx.movies[j] = before[j]

\* enrich_missing.main has hit the conflict with a record that holds
\* another field.
C6_Witness ==
    /\ runKind = "enrich"
    /\ ~IsNone(lastWrite)
    /\ Val(lastWrite).conflict
    /\ \E f \in MetaFields \ {"imdb_id"} : ~IsNone(Val(Val(lastWrite).omdb)[f])

\* A field the incoming record does not hold is as it was on the row.
C7_Frame ==
    (~IsNone(lastWrite) /\ Val(lastWrite).id \in DOMAIN Val(lastWrite).before) =>
        LET id == Val(lastWrite).id
            omdb == Val(lastWrite).omdb
        IN \A f \in MetaFields :
               (IsNone(omdb) \/ IsNone(Val(omdb)[f])) =>
                   tx.movies[id][f] = Val(lastWrite).before[id][f]

\* A step keeps every row, and every field of it that is not NULL.
C7_NoRegress ==
    \A id \in DOMAIN db.movies :
        /\ id \in DOMAIN db'.movies
        /\ \A f \in MetaFields :
               ~IsNone(db.movies[id][f]) => ~IsNone(db'.movies[id][f])

\* C7: a write leaves the metadata fields its record does not hold as they
\* are, and no stored metadata field that is not NULL becomes NULL.
C7_CoalesceForward == []C7_Frame /\ [][C7_NoRegress]_vars

\* A write on a row that holds a field the incoming record lacks.
C7_Witness ==
    /\ ~IsNone(lastWrite)
    /\ Val(lastWrite).id \in DOMAIN Val(lastWrite).before
    /\ \E f \in MetaFields :
           /\ ~IsNone(Val(lastWrite).before[Val(lastWrite).id][f])
           /\ \/ IsNone(Val(lastWrite).omdb)
              \/ IsNone(Val(Val(lastWrite).omdb)[f])

\* C8: a full load that ends normally right after a full load of the same
\* files with the same row cap, which ended normally and saved the cache,
\* leaves the store as the first one left it.
C8_Idempotent ==
    (runKind = "etl" /\ pc = "done" /\ aborted = "no"
         /\ prev = Some(Len(movies_df))) => db = dbAtStart

\* C9: every rating in the store is of a movie in the store; after a full
\* load, the rows of ratings.csv whose movie is in the store are all in the
\* store and the others are the rows counted as dropped.
C9_RatingsReferMovies ==
    /\ \A k \in DOMAIN db.ratings : k[2] \in DOMAIN db.movies
    /\ (runKind = "etl" /\ pc = "done" /\ aborted = "no") =>
           /\ \A i \in 1..Len(RatingsCsv) :
                  RatingsCsv[i].movieId \in DOMAIN db.movies =>
                      RatingKey(RatingsCsv[i]) \in DOMAIN db.ratings
           /\ dropped = Cardinality({i \in 1..Len(RatingsCsv) :
                            RatingsCsv[i].movieId \notin DOMAIN db.movies})

\* A full load under a row cap has dropped ratings of movies of the file
\* that the cap left out, and inserted others.
C9_Witness ==
    /\ runKind = "etl" /\ pc = "done" /\ aborted = "no"
    /\ Len(movies_df) < Len(moviesCsv)
    /\ dropped > 1
    /\ DOMAIN db.ratings # {}

\* C10 as stated: when the full load is terminated in the movie loop, the
\* rows written before are committed: nothing written is lost.
C10_CommittedPerRow ==
    (runKind = "etl" /\ pc = "etl_movies" /\ aborted = "killed") => ~lost

\* C10, amended: the movie loop runs in one transaction that commits when
\* the loop is over; until then the committed store is as it was when the
\* script started, also when the script is terminated in the loop.
C10_OneTransaction ==
    (runKind = "etl" /\ pc = "etl_movies") => db = dbAtStart

\* The full load was terminated in the movie loop after it had written
\* rows, and the writes are gone.
C10_Witness ==
    /\ runKind = "etl" /\ pc = "etl_movies" /\ aborted = "killed"
    /\ lost

---------------------------------------------------------------------------
(* Properties of the lookup protocol *)

\* C11: with --fast, query_omdb makes no request: it returns the cached
\* value of a cached key, and for another key it caches and returns the
\* "skipped" document.
C11_FastNoNetwork ==
    (~IsNone(lastCall) /\ Val(lastCall).fast) =>
        /\ Val(lastCall).events = <<>>
        /\ Val(lastCall).responses = <<>>
        /\ Val(lastCall).ret = IF IsNone(Val(lastCall).cached) THEN SkippedDoc
                               ELSE Val(Val(lastCall).cached)
        /\ Val(lastCall).key \in DOMAIN cache
        /\ cache[Val(lastCall).key] = Val(lastCall).ret

\* A --fast call for a key that is not cached, with an API key set and the
\* rate-limit flag clear: only --fast keeps it from the network.
C11_Witness ==
    /\ ~IsNone(lastCall)
    /\ Val(lastCall).fast
    /\ ~Val(lastCall).rl
    /\ OMDB_API_KEY
    /\ IsNone(Val(lastCall).cached)
    /\ Val(lastCall).ret = SkippedDoc

===========================================================================
